---- MODULE Spec2Model ----
(***************************************************************************)
(* Model of notebooks/04_dp_basics.ipynb: the truncated stick-breaking     *)
(* sampler `sample` (lines 94-107) and the notebook cell that binds the    *)
(* module-level name G and calls it (lines 173-174).                       *)
(*                                                                         *)
(* Spec and FairSpec compute with exact numbers: their draws and           *)
(* tolerances are dyadic with small denominators and their calls have at   *)
(* most MaxAtoms atoms, so every sum, difference and product there is also *)
(* exact in float64.  FloatSpec runs one call for up to MaxFloatAtoms      *)
(* atoms in float64 arithmetic proper (round to nearest, ties to even),    *)
(* where np.sum(C) rounds.                                                 *)
(* Python lists are objects on a heap and the names V, C, phi hold         *)
(* references, so that aliasing between lists is expressible.              *)
(* The numpy global generator is a tape of raw variates: re-seeding with   *)
(* the same seed replays the tape, anything read past its end is fresh.    *)
(***************************************************************************)
EXTENDS Integers, Sequences, FiniteSets, TLC

\* Cap on the number of atoms of one call (the loop itself has none).
MaxAtoms == 3

VARIABLES pc, alpha, baseMeasure, eps, G, heap, live, V, C, phi,
          gV, gC, gphi, tape, drawLog, replay, prev

vars == <<pc, alpha, baseMeasure, eps, G, heap, live, V, C, phi,
          gV, gC, gphi, tape, drawLog, replay, prev>>

----------------------------------------------------------------------------
\* Arithmetic

\* A number x is held as the integer x * Unit.  Every draw is a multiple of
\* 1/4 and no product below has more than MaxAtoms + 1 factors, so every
\* value that arises is a multiple of 1/Unit and the arithmetic is exact.
Unit == 4 ^ (MaxAtoms + 1)

Zero == 0
One == Unit

Mul(x, y) == (x * y) \div Unit

RECURSIVE SumTo(_, _)
SumTo(s, k) == IF k = 0 THEN Zero ELSE SumTo(s, k - 1) + s[k]

RECURSIVE ProdTo(_, _)
ProdTo(s, k) == IF k = 0 THEN One ELSE Mul(ProdTo(s, k - 1), s[k])

\* np.sum(s)
npSum(s) == SumTo(s, Len(s))

\* np.prod(s)
npProd(s) == ProdTo(s, Len(s))

\* 1 - np.array(s), elementwise
OneMinusArray(s) == [i \in 1..Len(s) |-> One - s[i]]

\* s[:-1]
AllButLast(s) == SubSeq(s, 1, Len(s) - 1)

\* s[-1]
Last(s) == s[Len(s)]

----------------------------------------------------------------------------
\* float64 arithmetic

\* Cap on the number of atoms of one call in the float64 specification.
MaxFloatAtoms == 56

\* Significand width of a float64.
MantissaBits == 53

\* A non-negative binary number is the set of its bit positions: i \in S
\* stands for 2^(-i), so {} is 0.0, {0} is 1.0 and {1} is 0.5.  A signed
\* number is a record [neg, mag].
FZero == {}
FOne == {0}

FMin(S) == CHOOSE i \in S : \A j \in S : i <= j
FMax(S) == CHOOSE i \in S : \A j \in S : i >= j

\* The carry into position p when S and T are added
CarryIn(S, T, p) ==
    \E q \in S \cap T : q > p /\ \A r \in (p + 1)..(q - 1) : r \in S \cup T

\* S + T without rounding
ExactAdd(S, T) ==
    IF S = {} THEN T
    ELSE IF T = {} THEN S
    ELSE {p \in (FMin(S \cup T) - 1)..FMax(S \cup T) :
            ((p \in S) # (p \in T)) # CarryIn(S, T, p)}

\* S * T without rounding
RECURSIVE ExactMul(_, _)
ExactMul(S, T) ==
    IF S = {} THEN {}
    ELSE ExactAdd(ExactMul(S \ {FMin(S)}, T), {FMin(S) + j : j \in T})

\* Mutant of Round: the bits beyond the significand are dropped (round toward 0).
RoundTruncate(S) == IF S = {} THEN S ELSE {p \in S : p <= FMin(S) + MantissaBits - 1}

\* Round to nearest, ties to even, to MantissaBits significant bits.
Round(S) ==
    IF S = {} THEN S
    ELSE LET cut == FMin(S) + MantissaBits - 1
             kept == {p \in S : p <= cut}
             up == /\ (cut + 1) \in S
                   /\ (cut \in S \/ \E p \in S : p > cut + 1)
         IN IF up THEN ExactAdd(kept, {cut}) ELSE kept

\* x + y and x * y in float64
FAdd(x, y) == Round(ExactAdd(x, y))
FMul(x, y) == Round(ExactMul(x, y))

\* S < T for non-negative numbers
FLess(S, T) == \E p \in T \ S : \A q \in (S \cup T) : q < p => (q \in S <=> q \in T)

\* a > b for signed numbers
FGt(a, b) ==
    IF a.mag = {} /\ b.mag = {} THEN FALSE
    ELSE IF a.neg # b.neg /\ a.mag # {} /\ b.mag # {} THEN b.neg
    ELSE IF a.mag = {} THEN b.neg
    ELSE IF b.mag = {} THEN ~a.neg
    ELSE IF a.neg THEN FLess(a.mag, b.mag) ELSE FLess(b.mag, a.mag)

Pos(S) == [neg |-> FALSE, mag |-> S]
Neg(S) == [neg |-> TRUE, mag |-> S]

\* 1 - x in float64, for 0 <= x < 2
FOneMinus(S) ==
    IF S = {} THEN Pos(FOne)
    ELSE IF 0 \in S THEN Neg(S \ {0})
    ELSE Pos(Round({p \in 1..FMax(S) : p \notin S} \cup {FMax(S)}))

\* res + a[i] + ... + a[n], one addition after the other
RECURSIVE SumFrom(_, _, _, _)
SumFrom(res, a, i, n) == IF i > n THEN res ELSE SumFrom(FAdd(res, a[i]), a, i + 1, n)

\* a[j] + a[8+j] + ... over b blocks of 8
RECURSIVE Lane(_, _, _)
Lane(a, j, b) == IF b = 1 THEN a[j] ELSE FAdd(Lane(a, j, b - 1), a[8 * (b - 1) + j])

\* np.sum(a) of a float64 array of at most 128 elements: numpy's pairwise
\* summation, eight lanes over the full blocks of 8, then the rest in order.
npSumF(a) ==
    LET n == Len(a)
        b == n \div 8
    IN IF n < 8 THEN SumFrom(FZero, a, 1, n)
       ELSE SumFrom(FAdd(FAdd(FAdd(Lane(a, 1, b), Lane(a, 2, b)),
                              FAdd(Lane(a, 3, b), Lane(a, 4, b))),
                         FAdd(FAdd(Lane(a, 5, b), Lane(a, 6, b)),
                              FAdd(Lane(a, 7, b), Lane(a, 8, b)))),
                    a, 8 * b + 1, n)

\* acc * a[i] * ... * a[n], one multiplication after the other (a product
\* that has reached 0.0 stays 0.0)
RECURSIVE ProdFrom(_, _, _, _)
ProdFrom(acc, a, i, n) ==
    IF i > n \/ acc = FZero THEN acc ELSE ProdFrom(FMul(acc, a[i]), a, i + 1, n)

\* np.prod(a)
npProdF(a) == ProdFrom(FOne, a, 1, Len(a))

\* 1 - np.array(s), elementwise, for elements in [0, 1]
OneMinusArrayF(s) == [i \in 1..Len(s) |-> FOneMinus(s[i]).mag]

\* spst.beta(1, alpha).rvs() for the raw variate u, the float64 u/4
BetaRvsF(a, u) == {p \in {1, 2} : (u \div (2 ^ (2 - p))) % 2 = 1}

----------------------------------------------------------------------------
\* Inputs

\* Concentrations tried: one outside the domain of Beta(1, alpha), one inside.
Alphas == {0, 1}

\* Tolerances tried: 1/2 and 3/4 are valid, 0 and 1 bound the open interval
\* (0,1), 3/2 lies above it.  (The default 1e-3 needs more atoms than MaxAtoms.)
EpsValues == {Zero, One \div 2, 3 * (One \div 4), One, 3 * (One \div 2)}

\* Distributions spst.norm(m), named by their mean m.
Dists == {0, 1}

\* Raw variates of the generator.
Raw == {1, 2}

\* Object identities: the caller's triple and the triple under construction.
Refs == 1..6

None == 0

ValidAlpha(a) == a > 0
ValidEps(e) == e > Zero /\ e < One

\* spst.beta(1, alpha).rvs() for the raw variate u: a value in (0,1).
BetaRvs(a, u) == u * (One \div 4)

\* spst.norm(m).rvs() for the raw variate u.
NormRvs(m, u) == m + u

\* rvs() of a Beta(1, alpha) with alpha <= 0 raises ValueError (domain error)
\* before it generates anything.
BetaDomainError(a) == ~ValidAlpha(a)

----------------------------------------------------------------------------
\* Heap

Deref(r) == IF r = None THEN <<>> ELSE heap[r]

NewRef(used) == CHOOSE r \in Refs \ used : \A q \in Refs \ used : r <= q

\* The raw variates the generator can produce next.
NextRaw == IF Len(drawLog) < Len(tape) THEN {tape[Len(drawLog) + 1]} ELSE Raw

Consume(u) == IF Len(drawLog) < Len(tape) THEN tape ELSE Append(tape, u)

InCall == pc \in {"l98", "l99", "l100", "l102", "l103", "l104", "l105", "l107"}

----------------------------------------------------------------------------
\* Before the first call: G is bound, nothing is allocated; the parameter names
\* of sample hold placeholders until Call binds them.
Init ==
    /\ pc = "idle"
    /\ alpha = 1
    /\ baseMeasure \in Dists
    /\ G = baseMeasure
    /\ eps = One \div 2
    /\ heap = [r \in Refs |-> <<>>]
    /\ live = {}
    /\ V = None /\ C = None /\ phi = None
    /\ gV = None /\ gC = None /\ gphi = None
    /\ tape = <<>>
    /\ drawLog = <<>>
    /\ replay = FALSE
    /\ prev = [alpha |-> 1, baseMeasure |-> baseMeasure, eps |-> One \div 2, G |-> baseMeasure]

\* line 173: G = spst.norm(m)
BindG ==
    /\ ~InCall
    /\ \E m \in Dists : m # G /\ G' = m
    /\ UNCHANGED <<pc, alpha, baseMeasure, eps, heap, live, V, C, phi,
                   gV, gC, gphi, tape, drawLog, replay, prev>>

\* line 174 / line 94: sample(alpha=a, baseMeasure=b, eps=e) is entered, with
\* the generator either re-seeded as for the previous call or fresh.
Call ==
    /\ ~InCall
    /\ \E a \in Alphas, b \in Dists, e \in EpsValues, r \in BOOLEAN :
         /\ r => pc = "done"
         /\ alpha' = a /\ baseMeasure' = b /\ eps' = e
         /\ replay' = r
         /\ tape' = IF r THEN tape ELSE <<>>
    /\ drawLog' = <<>>
    /\ pc' = "l98"
    /\ UNCHANGED <<G, heap, live, V, C, phi, gV, gC, gphi, prev>>

\* Mutant of L98: V starts empty, the first draw is left to the loop.
L98Empty ==
    /\ pc = "l98"
    /\ IF BetaDomainError(alpha)
       THEN /\ pc' = "raised"
            /\ UNCHANGED <<heap, live, V>>
       ELSE LET r == NewRef(live) IN
              /\ V' = r
              /\ live' = live \cup {r}
              /\ heap' = [heap EXCEPT ![r] = <<>>]
              /\ pc' = "l99"
    /\ UNCHANGED <<alpha, baseMeasure, eps, G, C, phi, gV, gC, gphi, replay, prev,
                   tape, drawLog>>

\* line 98: V = [spst.beta(1,alpha).rvs()]
L98 ==
    /\ pc = "l98"
    /\ IF BetaDomainError(alpha)
       THEN /\ pc' = "raised"
            /\ UNCHANGED <<heap, live, V, tape, drawLog>>
       ELSE \E u \in NextRaw :
              LET r == NewRef(live) IN
              /\ V' = r
              /\ live' = live \cup {r}
              /\ heap' = [heap EXCEPT ![r] = <<BetaRvs(alpha, u)>>]
              /\ tape' = Consume(u)
              /\ drawLog' = Append(drawLog, [kind |-> "beta", dist |-> alpha, raw |-> u])
              /\ pc' = "l99"
    /\ UNCHANGED <<alpha, baseMeasure, eps, G, C, phi, gV, gC, gphi, replay, prev>>

\* Mutant of ListCopy: C = V binds a second name to the same list.
ListCopyAlias(src, fresh) == src

\* list.copy(): a new list object with the same elements
ListCopy(src, fresh) == fresh

\* line 99: C = V.copy()
L99 ==
    /\ pc = "l99"
    /\ LET r == ListCopy(V, NewRef(live)) IN
         /\ C' = r
         /\ live' = live \cup {r}
         /\ heap' = [heap EXCEPT ![r] = heap[V]]
    /\ pc' = "l100"
    /\ UNCHANGED <<alpha, baseMeasure, eps, G, V, phi, gV, gC, gphi, tape, drawLog, replay, prev>>

\* Mutant of L100: the loop body runs once before the condition is tested.
L100ThenBody ==
    /\ pc = "l100"
    /\ \E u \in NextRaw :
         LET r == NewRef(live) IN
         /\ phi' = r
         /\ live' = live \cup {r}
         /\ heap' = [heap EXCEPT ![r] = <<NormRvs(baseMeasure, u)>>]
         /\ tape' = Consume(u)
         /\ drawLog' = Append(drawLog, [kind |-> "loc", dist |-> baseMeasure, raw |-> u])
    /\ pc' = "l103"
    /\ UNCHANGED <<alpha, baseMeasure, eps, G, V, C, gV, gC, gphi, replay, prev>>

\* line 100: phi = [baseMeasure.rvs()]
L100 ==
    /\ pc = "l100"
    /\ \E u \in NextRaw :
         LET r == NewRef(live) IN
         /\ phi' = r
         /\ live' = live \cup {r}
         /\ heap' = [heap EXCEPT ![r] = <<NormRvs(baseMeasure, u)>>]
         /\ tape' = Consume(u)
         /\ drawLog' = Append(drawLog, [kind |-> "loc", dist |-> baseMeasure, raw |-> u])
    /\ pc' = "l102"
    /\ UNCHANGED <<alpha, baseMeasure, eps, G, V, C, gV, gC, gphi, replay, prev>>

\* Mutant of LoopCond: >= in place of >.
LoopCondGe(c, e) == One - npSum(c) >= e

\* Mutant of LoopCond: the comparison inverted.
LoopCondInverted(c, e) == One - npSum(c) < e

\* line 102: the loop condition 1-np.sum(C)>eps
LoopCond(c, e) == One - npSum(c) > e

\* line 102: while 1-np.sum(C)>eps
L102 ==
    /\ pc = "l102"
    /\ IF LoopCond(heap[C], eps)
       THEN Len(heap[V]) < MaxAtoms /\ pc' = "l103"
       ELSE pc' = "l107"
    /\ UNCHANGED <<alpha, baseMeasure, eps, G, heap, live, V, C, phi,
                   gV, gC, gphi, tape, drawLog, replay, prev>>

\* line 103: V.append(spst.beta(1,alpha).rvs())
L103 ==
    /\ pc = "l103"
    /\ \E u \in NextRaw :
         /\ heap' = [heap EXCEPT ![V] = Append(@, BetaRvs(alpha, u))]
         /\ tape' = Consume(u)
         /\ drawLog' = Append(drawLog, [kind |-> "beta", dist |-> alpha, raw |-> u])
    /\ pc' = "l104"
    /\ UNCHANGED <<alpha, baseMeasure, eps, G, live, V, C, phi, gV, gC, gphi, replay, prev>>

\* Mutant of NewMass: the product runs over V instead of V[:-1].
NewMassInclLast(v) == Mul(Last(v), npProd(OneMinusArray(v)))

\* Mutant of NewMass: the remaining stick is left out.
NewMassNoStick(v) == Last(v)

\* line 104: the new mass V[-1]*np.prod([1-np.array(V[:-1])])
NewMass(v) == Mul(Last(v), npProd(OneMinusArray(AllButLast(v))))

\* Mutant of L104: the mass is computed from a fresh Beta draw, not from V[-1].
L104FreshDraw ==
    /\ pc = "l104"
    /\ \E u \in NextRaw :
         /\ heap' = [heap EXCEPT ![C] =
                        Append(@, Mul(BetaRvs(alpha, u),
                                      npProd(OneMinusArray(AllButLast(heap[V])))))]
         /\ tape' = Consume(u)
         /\ drawLog' = Append(drawLog, [kind |-> "beta", dist |-> alpha, raw |-> u])
    /\ pc' = "l105"
    /\ UNCHANGED <<alpha, baseMeasure, eps, G, live, V, C, phi,
                   gV, gC, gphi, replay, prev>>

\* line 104: C.append(V[-1]*np.prod([1-np.array(V[:-1])]))
L104 ==
    /\ pc = "l104"
    /\ heap' = [heap EXCEPT ![C] = Append(@, NewMass(heap[V]))]
    /\ pc' = "l105"
    /\ UNCHANGED <<alpha, baseMeasure, eps, G, live, V, C, phi,
                   gV, gC, gphi, tape, drawLog, replay, prev>>

\* line 105: the distribution the later atoms are drawn from, the global G
LoopDist == G

\* Mutant of L105: the location is drawn but not appended.
L105NoAppend ==
    /\ pc = "l105"
    /\ \E u \in NextRaw :
         /\ tape' = Consume(u)
         /\ drawLog' = Append(drawLog, [kind |-> "loc", dist |-> LoopDist, raw |-> u])
    /\ pc' = "l102"
    /\ UNCHANGED <<alpha, baseMeasure, eps, G, heap, live, V, C, phi, gV, gC, gphi,
                   replay, prev>>

\* line 105: phi.append(G.rvs())
L105 ==
    /\ pc = "l105"
    /\ \E u \in NextRaw :
         /\ heap' = [heap EXCEPT ![phi] = Append(@, NormRvs(LoopDist, u))]
         /\ tape' = Consume(u)
         /\ drawLog' = Append(drawLog, [kind |-> "loc", dist |-> LoopDist, raw |-> u])
    /\ pc' = "l102"
    /\ UNCHANGED <<alpha, baseMeasure, eps, G, live, V, C, phi, gV, gC, gphi, replay, prev>>

\* line 107 and line 174: return V, C, phi; the caller binds the triple to its
\* own names and the lists of the triple it held before are released.
L107 ==
    /\ pc = "l107"
    /\ gV' = V /\ gC' = C /\ gphi' = phi
    /\ LET kept == {V, C, phi} IN
         /\ live' = kept
         /\ heap' = [r \in Refs |-> IF r \in kept THEN heap[r] ELSE <<>>]
    /\ V' = None /\ C' = None /\ phi' = None
    /\ prev' = [alpha |-> alpha, baseMeasure |-> baseMeasure, eps |-> eps, G |-> G]
    /\ pc' = "done"
    /\ UNCHANGED <<alpha, baseMeasure, eps, G, tape, drawLog, replay>>

Step == L98 \/ L99 \/ L100 \/ L102 \/ L103 \/ L104 \/ L105 \/ L107

Next == BindG \/ Call \/ Step

Spec == Init /\ [][Next]_vars

\* A single run of the notebook cell: G is bound, then sample is called once.
FirstBindG == pc = "idle" /\ BindG

FirstCall == pc = "idle" /\ Call

NextOnce == FirstBindG \/ FirstCall \/ Step

\* The interpreter keeps running a call that has been entered.
FairSpec == Init /\ [][NextOnce]_vars /\ WF_vars(Step)

----------------------------------------------------------------------------
\* The same call in float64 arithmetic, on a seeded generator

\* Number of leading Beta draws of the seeded stream that vary; the later
\* ones are all 0.5.
FloatFree == 1

\* Tolerances tried in float64: -1/2, 0, and 2^(-k) for some k.
FloatEpsValues == {Neg({1}), Pos(FZero)} \cup {Pos({k}) : k \in {1, 2, 10, 30, 50, 60}}

ValidEpsF(e) == FGt(e, Pos(FZero)) /\ FGt(Pos(FOne), e)

\* The streams of the seeded generator: raw variate 2 everywhere (Beta draw
\* 0.5), except that the first FloatFree Beta draws may also be 0.25.
SeededTapes ==
    {[i \in 1..(2 * MaxFloatAtoms) |->
         IF i % 2 = 1 /\ (i + 1) \div 2 \in low THEN 1 ELSE 2] : low \in SUBSET (1..FloatFree)}

FloatInit ==
    /\ pc = "idle"
    /\ alpha = 1
    /\ baseMeasure \in Dists
    /\ G = baseMeasure
    /\ eps = Pos({1})
    /\ heap = [r \in Refs |-> <<>>]
    /\ live = {}
    /\ V = None /\ C = None /\ phi = None
    /\ gV = None /\ gC = None /\ gphi = None
    /\ tape \in SeededTapes
    /\ drawLog = <<>>
    /\ replay = FALSE
    /\ prev = [alpha |-> 1, baseMeasure |-> baseMeasure, eps |-> Pos({1}), G |-> baseMeasure]

\* line 174 / line 94: sample(alpha=a, baseMeasure=b, eps=e) is entered once.
FloatCall ==
    /\ pc = "idle"
    /\ \E a \in Alphas, b \in Dists, e \in FloatEpsValues :
         alpha' = a /\ baseMeasure' = b /\ eps' = e
    /\ pc' = "l98"
    /\ UNCHANGED <<G, heap, live, V, C, phi, gV, gC, gphi, tape, drawLog, replay, prev>>

\* line 98: V = [spst.beta(1,alpha).rvs()]
F98 ==
    /\ pc = "l98"
    /\ IF BetaDomainError(alpha)
       THEN /\ pc' = "raised"
            /\ UNCHANGED <<heap, live, V, tape, drawLog>>
       ELSE \E u \in NextRaw :
              LET r == NewRef(live) IN
              /\ V' = r
              /\ live' = live \cup {r}
              /\ heap' = [heap EXCEPT ![r] = <<BetaRvsF(alpha, u)>>]
              /\ tape' = Consume(u)
              /\ drawLog' = Append(drawLog, [kind |-> "beta", dist |-> alpha, raw |-> u])
              /\ pc' = "l99"
    /\ UNCHANGED <<alpha, baseMeasure, eps, G, C, phi, gV, gC, gphi, replay, prev>>

\* line 102: the loop condition 1-np.sum(C)>eps
LoopCondF(c, e) == FGt(FOneMinus(npSumF(c)), e)

\* Mutant of F102: the loop gives up after 32 atoms.
F102Capped ==
    /\ pc = "l102"
    /\ IF LoopCondF(heap[C], eps) /\ Len(heap[V]) < 32
       THEN pc' = "l103"
       ELSE pc' = "l107"
    /\ UNCHANGED <<alpha, baseMeasure, eps, G, heap, live, V, C, phi,
                   gV, gC, gphi, tape, drawLog, replay, prev>>

\* line 102: while 1-np.sum(C)>eps
F102 ==
    /\ pc = "l102"
    /\ IF LoopCondF(heap[C], eps)
       THEN Len(heap[V]) < MaxFloatAtoms /\ pc' = "l103"
       ELSE pc' = "l107"
    /\ UNCHANGED <<alpha, baseMeasure, eps, G, heap, live, V, C, phi,
                   gV, gC, gphi, tape, drawLog, replay, prev>>

\* line 103: V.append(spst.beta(1,alpha).rvs())
F103 ==
    /\ pc = "l103"
    /\ \E u \in NextRaw :
         /\ heap' = [heap EXCEPT ![V] = Append(@, BetaRvsF(alpha, u))]
         /\ tape' = Consume(u)
         /\ drawLog' = Append(drawLog, [kind |-> "beta", dist |-> alpha, raw |-> u])
    /\ pc' = "l104"
    /\ UNCHANGED <<alpha, baseMeasure, eps, G, live, V, C, phi, gV, gC, gphi, replay, prev>>

\* Mutant of NewMassF: the product runs over V instead of V[:-1].
NewMassFInclLast(v) == FMul(Last(v), npProdF(OneMinusArrayF(v)))

\* line 104: the new mass V[-1]*np.prod([1-np.array(V[:-1])])
NewMassF(v) == FMul(Last(v), npProdF(OneMinusArrayF(AllButLast(v))))

\* line 104: C.append(V[-1]*np.prod([1-np.array(V[:-1])]))
F104 ==
    /\ pc = "l104"
    /\ heap' = [heap EXCEPT ![C] = Append(@, NewMassF(heap[V]))]
    /\ pc' = "l105"
    /\ UNCHANGED <<alpha, baseMeasure, eps, G, live, V, C, phi,
                   gV, gC, gphi, tape, drawLog, replay, prev>>

\* The sampler with a running remaining-mass accumulator: R = 1, then for
\* each draw v: c = v * R, R <- R * (1 - v).  RFrom continues R over v[i..n].
RECURSIVE RFrom(_, _, _, _)
RFrom(acc, v, i, n) ==
    IF i > n \/ acc = FZero THEN acc
    ELSE RFrom(FMul(acc, FOneMinus(v[i]).mag), v, i + 1, n)

\* R after the first k draws of v
AccR(v, k) == RFrom(FOne, v, 1, k)

\* The masses the accumulator sampler produces for the draws v
AccC(v) == [k \in 1..Len(v) |-> FMul(v[k], AccR(v, k - 1))]

\* The accumulator sampler goes on after the draws v
AccContinues(v, e) == FGt(Pos(AccR(v, Len(v))), e)

FloatNext ==
    FirstBindG \/ FloatCall \/ F98 \/ L99 \/ L100 \/ F102 \/ F103 \/ F104 \/ L105 \/ L107

FloatSpec == FloatInit /\ [][FloatNext]_vars

----------------------------------------------------------------------------
\* Vocabulary of the properties

\* The triple the caller holds after a return.
RetV == Deref(gV)
RetC == Deref(gC)
RetPhi == Deref(gphi)

\* The lists of the call in progress.
CurV == Deref(V)
CurC == Deref(C)
CurPhi == Deref(phi)

BetaDraws == SelectSeq(drawLog, LAMBDA d : d.kind = "beta")
LocDraws == SelectSeq(drawLog, LAMBDA d : d.kind = "loc")

\* The stick left after the first k breaks: product over i <= k of (1 - v[i]).
RECURSIVE Remaining(_, _)
Remaining(v, k) == IF k = 0 THEN One ELSE Mul(Remaining(v, k - 1), One - v[k])

\* c[1] + ... + c[k]
RECURSIVE PrefixSum(_, _)
PrefixSum(c, k) == IF k = 0 THEN Zero ELSE PrefixSum(c, k - 1) + c[k]

Unrepresented(c) == One - PrefixSum(c, Len(c))

Returned == pc = "done"

----------------------------------------------------------------------------
\* C1: for valid alpha and eps the returned triple has 1 - sum(C) < eps,
\* strictly, also when the mass left after some atom equals eps exactly.
C1_MassBound ==
    (Returned /\ ValidAlpha(alpha) /\ ValidEps(eps)) => Unrepresented(RetC) < eps

\* C2: every location of the returned phi, the first and the later ones, was
\* drawn from the baseMeasure argument of the call, whatever G is bound to.
C2_AtomsFromBaseMeasure ==
    Returned =>
        \A k \in 1..Len(RetPhi) :
            /\ LocDraws[k].dist = baseMeasure
            /\ RetPhi[k] = NormRvs(baseMeasure, LocDraws[k].raw)

\* C3: at every evaluation of the loop condition and at return the three
\* lists have one length, and every statement of the loop body appends exactly
\* one element to exactly one of them, V then C then phi.
C3_LengthLockStep ==
    /\ [](pc \in {"l102", "l107"} =>
            Len(CurV) = Len(CurC) /\ Len(CurC) = Len(CurPhi))
    /\ [](Returned => Len(RetV) = Len(RetC) /\ Len(RetC) = Len(RetPhi))
    /\ [][/\ pc = "l103" => /\ Len(CurV') = Len(CurV) + 1
                            /\ Len(CurC') = Len(CurC) /\ Len(CurPhi') = Len(CurPhi)
          /\ pc = "l104" => /\ Len(CurC') = Len(CurC) + 1
                            /\ Len(CurV') = Len(CurV) /\ Len(CurPhi') = Len(CurPhi)
          /\ pc = "l105" => /\ Len(CurPhi') = Len(CurPhi) + 1
                            /\ Len(CurV') = Len(CurV) /\ Len(CurC') = Len(CurC)
          /\ pc = "l102" => /\ Len(CurV') = Len(CurV)
                            /\ Len(CurC') = Len(CurC) /\ Len(CurPhi') = Len(CurPhi)]_vars

C3_Witness == Returned /\ Len(RetV) = 3 /\ Len(RetPhi) = 3

\* C4: in the returned triple C[k] = V[k] * product over i < k of (1 - V[i])
\* for every k; the product is empty for the first atom and never includes V[k].
C4_WeightDecomposition ==
    Returned =>
        /\ Len(RetC) = Len(RetV)
        /\ \A k \in 1..Len(RetC) : RetC[k] = Mul(RetV[k], Remaining(RetV, k - 1))

C4_Witness == Returned /\ Len(RetC) = 3 /\ RetC[3] # RetV[3] /\ RetC[1] = RetV[1]

\* C5: at every point of the loop 0 < C[k] <= V[k] < 1 for every k, the prefix
\* sums of C increase strictly and none exceeds 1.
C5_RangeInvariants ==
    (InCall /\ C # None) =>
        /\ Len(CurC) <= Len(CurV)
        /\ \A k \in 1..Len(CurC) :
              /\ CurC[k] > Zero
              /\ CurC[k] <= CurV[k]
              /\ CurV[k] < One
              /\ PrefixSum(CurC, k) > PrefixSum(CurC, k - 1)
              /\ PrefixSum(CurC, k) <= One

C5_Witness == pc = "l105" /\ Len(CurC) = 3 /\ CurC[3] < CurV[3]

\* C6: with a valid alpha and 0 < eps < 1, and Beta draws from a finite set
\* of values in (0,1), a call that has been entered eventually returns.
ValidCallRunning == InCall /\ ValidAlpha(alpha) /\ ValidEps(eps)

C6_Termination == ValidCallRunning ~> Returned

C6_Witness == Returned /\ ValidAlpha(alpha) /\ ValidEps(eps) /\ Len(RetV) = 3

\* C7 as stated: a call with alpha <= 0 or eps outside (0,1) is rejected before
\* any draw is made and returns no triple.
C7_FailFast ==
    ((InCall \/ Returned) /\ (~ValidAlpha(alpha) \/ ~ValidEps(eps))) =>
        /\ drawLog = <<>>
        /\ ~Returned

\* C7 as amended: sample validates nothing itself.  alpha <= 0 is rejected by
\* the domain error of the first Beta draw, before any draw is made and with
\* no list built; eps is never checked: with alpha > 0 a call with eps >= 1
\* returns a one-atom triple after one Beta and one location draw, and a call
\* with eps <= 0 is never rejected and goes on drawing without returning
\* (as long as the arithmetic is exact, as it is here).
C7_NoValidation ==
    /\ pc = "raised" => ~ValidAlpha(alpha)
    /\ ~ValidAlpha(alpha) =>
          /\ pc \in {"l98", "raised"}
          /\ drawLog = <<>>
          /\ V = None /\ C = None /\ phi = None
    /\ (ValidAlpha(alpha) /\ eps >= One /\ Returned) =>
          /\ Len(RetV) = 1 /\ Len(RetC) = 1 /\ Len(RetPhi) = 1
          /\ Len(BetaDraws) = 1 /\ Len(LocDraws) = 1
    /\ (ValidAlpha(alpha) /\ eps <= Zero) => pc \notin {"l107", "done", "raised"}

C7_Witness ==
    \/ Returned /\ ValidAlpha(alpha) /\ eps >= One /\ Len(RetV) = 1
    \/ pc = "l102" /\ ValidAlpha(alpha) /\ eps <= Zero /\ Len(CurC) = 3

\* C8: every call that returns, for any alpha and eps, returns lists of
\* length at least 1.
C8_AtLeastOneAtom ==
    Returned => Len(RetV) >= 1 /\ Len(RetC) >= 1 /\ Len(RetPhi) >= 1

C8_Witness == Returned /\ eps >= One /\ Len(RetV) = 1 /\ Len(RetPhi) = 1

\* C9: a call with the same alpha, base distribution and eps as the previous
\* one, run on the same seed, returns the same triple, element for element.
C9_Determinism ==
    (/\ pc = "l107" /\ replay
     /\ alpha = prev.alpha /\ baseMeasure = prev.baseMeasure /\ eps = prev.eps) =>
        /\ CurV = RetV
        /\ CurC = RetC
        /\ CurPhi = RetPhi

\* C10: the lists of a call are fresh and pairwise distinct objects, appending
\* to V leaves C as it was, and no statement of a later call changes the
\* triple the caller holds from an earlier one.
C10_NoSharedState ==
    /\ [](InCall =>
            /\ \A x \in {V, C, phi} : x # None => x \notin {gV, gC, gphi}
            /\ (V # None /\ C # None) => V # C
            /\ (phi # None) => phi \notin {V, C})
    /\ [][/\ pc = "l103" => CurC' = CurC
          /\ (pc # "l107" /\ gV # None) =>
                /\ gV' = gV /\ gC' = gC /\ gphi' = gphi
                /\ RetV' = RetV /\ RetC' = RetC /\ RetPhi' = RetPhi]_vars

C10_Witness == pc = "l105" /\ gV # None /\ Len(CurV) = 3 /\ Len(RetV) = 3

\* C12: at the loop condition, sample goes on to another iteration whenever
\* the remaining mass 1 - sum(C) is >= eps and goes to the return only when it
\* is < eps; after that no draw and no append happens, and the caller gets the
\* triple only by the return.
C12_StopRule ==
    [][/\ pc = "l102" =>
            /\ Unrepresented(CurC) >= eps => pc' = "l103"
            /\ pc' = "l107" => Unrepresented(CurC) < eps
       /\ pc = "l107" =>
            /\ pc' = "done" /\ drawLog' = drawLog
            /\ RetV' = CurV /\ RetC' = CurC /\ RetPhi' = CurPhi]_vars

----------------------------------------------------------------------------
\* Vocabulary of the float64 properties

\* The list C of the call, in progress or returned.
TheC == IF Returned THEN RetC ELSE CurC
TheV == IF Returned THEN RetV ELSE CurV

\* acc + c[i] + ... + c[n] without rounding
RECURSIVE ExactSumFrom(_, _, _, _)
ExactSumFrom(acc, c, i, n) ==
    IF i > n THEN acc ELSE ExactSumFrom(ExactAdd(acc, c[i]), c, i + 1, n)

ExactSum(c) == ExactSumFrom(FZero, c, 1, Len(c))

NonPositiveEps == ~FGt(eps, Pos(FZero))

AllHalves(v) == \A k \in 1..Len(v) : v[k] = {1}

C15_NoIterationCap ==
    /\ pc = "raised" => ~ValidAlpha(alpha)
    /\ pc = "l103" => LoopCondF(CurC, eps)
    /\ pc = "l107" => ~LoopCondF(CurC, eps)
    /\ Returned => ~LoopCondF(RetC, eps)

C15_Witness == Returned /\ ValidAlpha(alpha) /\ ValidEpsF(eps) /\ Len(RetV) = 50

====
